---- MODULE Spec2Model ----
(***************************************************************************)
(* Model of the authentication routes and of the content routes of        *)
(* secure-cms (src/routes/auth.js) and of the JWT middleware and its gates *)
(* (src/middleware/auth.js).                                               *)
(*                                                                         *)
(* State: the user collection, the wall clock in seconds (the resolution   *)
(* of the iat/exp claims of a JWT), the tokens the clients hold, and the   *)
(* latest request with its response.  One action per route handler; each   *)
(* handler is an operator from (collection, clock, request) to (response,  *)
(* collection), translated branch by branch from the source.               *)
(***************************************************************************)
EXTENDS Integers, Sequences, FiniteSets, TLC

\* ------------------------------------------------------------------ bounds
\* Number of clock advances in a behaviour.
MaxTicks == 1
\* Number of /register requests in progress at the same time.
MaxInflight == 2
\* Number of Content documents, and the highest view count of one.
MaxContents == 1
MaxViews == 1
\* the /refresh and /logout requests that run concurrently
MaxRefreshes == 2
MaxLogouts == 1
\* the /login requests that run concurrently
MaxLogins == 2
\* the GET /:id requests that run concurrently
MaxGets == 2

\* ------------------------------------------------------- program constants
\* expiresIn: '1h' and '7d', in seconds.
AccessTTL == 3600
RefreshTTL == 604800
\* password.length < 6
MinPasswordLength == 6
\* bcryptjs.genSalt(10)
SaltRounds == 10

\* const { page = 1, limit = 10, ... } = req.query
DefaultPage == 1
DefaultLimit == 10

\* process.env.JWT_SECRET || 'your-secret-key'
JWT_SECRET == "your-secret-key"
\* One key for both kinds of token.
JWT_REFRESH_SECRET_Shared == JWT_SECRET

\* process.env.JWT_REFRESH_SECRET || 'your-refresh-secret-key'
JWT_REFRESH_SECRET == "your-refresh-secret-key"
\* a key the server does not hold: a token signed with it is a forgery
ForgedSecret == "attacker-key"

\* ------------------------------------------------------------ input values
\* "" stands for a field that is absent or empty: both are falsy in `!field`.
Emails == {"a@x.com", "b@x.com"}
Usernames == {"alice", "bob"}
Passwords == {"Secret1!", "wrong"}
Salts == {"salt1"}
\* Role and permission names a route can require and a payload can carry.
Roles == {"user", "editor", "admin"}
Permissions == {"content:read", "content:write"}
\* How far the clock moves in one step: to the next second, past the life
\* of an access token, past the life of a refresh token.
TickSteps == {1, AccessTTL, RefreshTTL}

\* ------------------------------------------------------------------ values
\* undefined (a property that was never set, a body field that is absent)
NoId == 0
Undefined == [sig |-> "undefined", userId |-> NoId, email |-> "", iat |-> 0, exp |-> 0]
\* null (the value logout stores; a JSON null in a request body)
Null == [sig |-> "null", userId |-> NoId, email |-> "", iat |-> 0, exp |-> 0]
\* a role that is undefined, null or '': falsy in `!userRole`
NoRole == ""
\* the role a new User document gets from its schema
DefaultRole == "user"
\* the result of a query that matches no document
NoUser == [_id |-> NoId, username |-> "", email |-> "", password |-> <<>>,
           refreshToken |-> Undefined, lastLogin |-> -1, role |-> NoRole]

IsToken(t) == t # Undefined /\ t # Null

VARIABLES
    users,   \* the User collection: a sequence of documents, _id = position
    now,     \* the clock, in seconds
    ticks,   \* how often the clock has advanced
    grants,  \* per _id, the token pairs of its two latest successful register/login calls
    last,    \* the latest request and its response
    pending, \* the /register requests that are between two of their awaits
    contents \* the Content collection: a sequence of documents, _id = position

vars == <<users, now, ticks, grants, last, pending, contents>>

\* ------------------------------------------------------------ jsonwebtoken
\* jwt.sign(payload, secret, {expiresIn}): HS256 over header and payload with
\* iat = the current second and exp = iat + expiresIn.  The signature is a
\* function of payload and secret, so two calls with the same payload in the
\* same second return the same string.
JwtSign(userId, email, secret, ttl, t) ==
    [sig |-> secret, userId |-> userId, email |-> email, iat |-> t, exp |-> t + ttl]

\* Expiry tested with > in place of >=: the token still passes in its last second.
JwtVerify_ExpiryInclusive(token, secret, t) ==
    IF ~IsToken(token) \/ token.sig # secret THEN "JsonWebTokenError"
    ELSE IF t > token.exp THEN "TokenExpiredError"
    ELSE "ok"

\* jwt.verify(token, secret): the signature is checked first, then the expiry
\* (expired when the clock has reached exp).
JwtVerify(token, secret, t) ==
    IF ~IsToken(token) \/ token.sig # secret THEN "JsonWebTokenError"
    ELSE IF t >= token.exp THEN "TokenExpiredError"
    ELSE "ok"

\* ---------------------------------------------------------------- bcryptjs
\* bcryptjs.hash(password, salt): the hash carries the cost and the salt.
BcryptHash(password, salt) == <<SaltRounds, salt, password>>
\* Every password taken for the right one.
BcryptCompare_Always(password, hash) == TRUE

\* bcryptjs.compare(password, hash): re-hash with the cost and salt stored in the hash.
BcryptCompare(password, hash) ==
    Len(hash) = 3 /\ hash = <<hash[1], hash[2], password>>

\* ----------------------------------------------------------- User (mongoose)
UserIds(us) == 1..Len(us)

\* User.findOne({ $or: [{ email }, { username }] })
FindOneByEmailOrUsername(us, email, username) ==
    IF \E i \in UserIds(us) : us[i].email = email \/ us[i].username = username
    THEN us[CHOOSE i \in UserIds(us) :
                /\ us[i].email = email \/ us[i].username = username
                /\ \A j \in UserIds(us) :
                     (us[j].email = email \/ us[j].username = username) => i <= j]
    ELSE NoUser

\* User.findOne({ email })
FindOneByEmail(us, email) ==
    IF \E i \in UserIds(us) : us[i].email = email
    THEN us[CHOOSE i \in UserIds(us) : us[i].email = email]
    ELSE NoUser

\* User.findById(id): findById(undefined) is findOne({ _id: null }), no document.
FindById(us, id) ==
    IF id \in UserIds(us) THEN us[id] ELSE NoUser

\* save() that inserts the document instead of replacing it.
Save_Inserts(us, user) == Append(us, user)

\* user.save() of an existing document
Save(us, user) == [us EXCEPT ![user._id] = user]

\* --------------------------------------------------------------- responses
Response(status, message) ==
    [status |-> status, message |-> message, userId |-> NoId, username |-> "",
     email |-> "", accessToken |-> Undefined, refreshToken |-> Undefined,
     password |-> <<>>]

\* What a handler leaves behind: the response, the collection, and the value
\* of req.userId it ran with.
Result(resp, us, reqUserId) == [resp |-> resp, users |-> us, reqUserId |-> reqUserId]

\* ------------------------------------------------- router.post('/register')
\* The length check left out.
PasswordTooShort_Unchecked(password) == FALSE

\* password.length < 6
PasswordTooShort(password) == Len(password) < MinPasswordLength

Register(us, t, salt, username, email, password, confirmPassword) ==
    IF username = "" \/ email = "" \/ password = "" \/ confirmPassword = ""
    THEN Result(Response(400, "Please provide all required fields"), us, NoId)
    ELSE IF password # confirmPassword
    THEN Result(Response(400, "Passwords do not match"), us, NoId)
    ELSE IF PasswordTooShort(password)
    THEN Result(Response(400, "Password must be at least 6 characters long"), us, NoId)
    ELSE IF FindOneByEmailOrUsername(us, email, username) # NoUser
    THEN Result(Response(409, "Email or username already exists"), us, NoId)
    ELSE LET id == Len(us) + 1
             accessToken == JwtSign(id, email, JWT_SECRET, AccessTTL, t)
             refreshTokenValue == JwtSign(id, "", JWT_REFRESH_SECRET, RefreshTTL, t)
             newUser == [_id |-> id, username |-> username, email |-> email,
                         password |-> BcryptHash(password, salt),
                         refreshToken |-> refreshTokenValue, lastLogin |-> -1,
                         role |-> DefaultRole]
         IN Result([Response(201, "User registered successfully") EXCEPT
                        !.userId = id, !.username = username, !.email = email,
                        !.accessToken = accessToken,
                        !.refreshToken = refreshTokenValue],
                   Append(us, newUser), NoId)

\* ---------------------------------------------------- router.post('/login')
\* if (!user): the response when no document has the email
UnknownEmailResponse == Response(401, "Invalid email or password")

\* A message of its own for the wrong password.
WrongPasswordResponse_Distinct == Response(401, "Invalid password")

\* if (!isPasswordValid): the response when the password does not match
WrongPasswordResponse == Response(401, "Invalid email or password")

\* The whole document sent as the data of the response.
LoginData_WholeDocument(user, accessToken, refreshTokenValue) ==
    [Response(200, "User logged in successfully") EXCEPT
         !.userId = user._id, !.username = user.username, !.email = user.email,
         !.accessToken = accessToken, !.refreshToken = refreshTokenValue,
         !.password = user.password]

\* data: { userId, username, email, accessToken, refreshToken }
LoginData(user, accessToken, refreshTokenValue) ==
    [Response(200, "User logged in successfully") EXCEPT
         !.userId = user._id, !.username = user.username, !.email = user.email,
         !.accessToken = accessToken, !.refreshToken = refreshTokenValue]

Login(us, t, email, password) ==
    IF email = "" \/ password = ""
    THEN Result(Response(400, "Please provide email and password"), us, NoId)
    ELSE LET user == FindOneByEmail(us, email) IN
         IF user = NoUser
         THEN Result(UnknownEmailResponse, us, NoId)
         ELSE IF ~BcryptCompare(password, user.password)
         THEN Result(WrongPasswordResponse, us, NoId)
         ELSE LET accessToken == JwtSign(user._id, user.email, JWT_SECRET, AccessTTL, t)
                  refreshTokenValue ==
                      JwtSign(user._id, "", JWT_REFRESH_SECRET, RefreshTTL, t)
              IN Result(LoginData(user, accessToken, refreshTokenValue),
                        Save(us, [user EXCEPT !.refreshToken = refreshTokenValue,
                                              !.lastLogin = t]), NoId)

\* ------------------------------------------------ verifyToken (middleware)
NoHeader == [present |-> FALSE, token |-> Undefined]
\* Authorization: "Bearer <token>"; Bearer(Undefined) is "Bearer " with no token
Bearer(token) == [present |-> TRUE, token |-> token]

\* Either ends the request with a response (next = FALSE) or calls next() with
\* req.user = decoded.  It assigns req.user only: req.userId stays undefined.
VerifyToken(header, t) ==
    IF ~header.present
    THEN [next |-> FALSE, resp |-> Response(401, "No authorization header provided"),
          user |-> Undefined, userId |-> NoId]
    ELSE IF header.token = Undefined
    THEN [next |-> FALSE, resp |-> Response(401, "No token provided"),
          user |-> Undefined, userId |-> NoId]
    ELSE LET v == JwtVerify(header.token, JWT_SECRET, t) IN
         IF v = "TokenExpiredError"
         THEN [next |-> FALSE, resp |-> Response(401, "Token has expired"),
               user |-> Undefined, userId |-> NoId]
         ELSE IF v = "JsonWebTokenError"
         THEN [next |-> FALSE, resp |-> Response(401, "Invalid token"),
               user |-> Undefined, userId |-> NoId]
         ELSE [next |-> TRUE, resp |-> Response(0, ""),
               user |-> header.token, userId |-> NoId]

\* --------------------------------------------------- checkRole (middleware)
\* req.user as the gates read it: the properties userId, role and permissions
\* of the decoded payload.  NoClaims is a request on which req.user was not set.
NoPermissions == [defined |-> FALSE, items |-> {}]
PermissionArray(names) == [defined |-> TRUE, items |-> names]
NoClaims == [userId |-> NoId, role |-> NoRole, permissions |-> NoPermissions]
\* The payload Register and Login sign is { userId, email }: its role and its
\* permissions read as undefined.
Claims(decoded) ==
    [userId |-> decoded.userId, role |-> NoRole, permissions |-> NoPermissions]

\* req.user.role
ClaimsRole(user) == user.role
\* req.user.permissions || []
ClaimsPermissions(user) ==
    IF user.permissions.defined THEN user.permissions.items ELSE {}

\* The argument of checkRole / checkPermission: one name or an array of names.
One(name) == [isArray |-> FALSE, item |-> name, items |-> {}]
Many(names) == [isArray |-> TRUE, item |-> "", items |-> names]
\* Array.isArray(required) ? required : [required]
AsArray(required) == IF required.isArray THEN required.items ELSE {required.item}

\* Denied only when the role is both missing and outside the array.
RoleDenied_MissingAndOutside(userRole, roles) ==
    userRole = NoRole /\ userRole \notin roles

\* !userRole || !roles.includes(userRole)
RoleDenied(userRole, roles) == userRole = NoRole \/ userRole \notin roles

CheckRole(user, requiredRoles) ==
    IF user = NoClaims
    THEN [next |-> FALSE, resp |-> Response(401, "User not authenticated")]
    ELSE LET roles == AsArray(requiredRoles)
             userRole == ClaimsRole(user)
         IN IF RoleDenied(userRole, roles)
            THEN [next |-> FALSE, resp |-> Response(403, "Insufficient permissions")]
            ELSE [next |-> TRUE, resp |-> Response(0, "")]

\* --------------------------------------------- checkPermission (middleware)
\* Every required permission demanded instead of any.
HasPermission_Every(permissions, userPermissions) ==
    \A permission \in permissions : permission \in userPermissions

\* permissions.some(permission => userPermissions.includes(permission))
HasPermission(permissions, userPermissions) ==
    \E permission \in permissions : permission \in userPermissions

CheckPermission(user, requiredPermissions) ==
    IF user = NoClaims
    THEN [next |-> FALSE, resp |-> Response(401, "User not authenticated")]
    ELSE LET permissions == AsArray(requiredPermissions)
             userPermissions == ClaimsPermissions(user)
         IN IF ~HasPermission(permissions, userPermissions)
            THEN [next |-> FALSE, resp |-> Response(403, "Insufficient permissions")]
            ELSE [next |-> TRUE, resp |-> Response(0, "")]

\* ----------------------------------------------- refreshToken (middleware)
\* routes/auth.js destructures `refreshToken` from require('../middleware/auth'),
\* whose module.exports has no such member: the name is undefined, so no
\* function verifies the body's token or assigns req.userId before the
\* /refresh handler runs.
RefreshTokenMiddleware(body, t) ==
    [next |-> TRUE, resp |-> Response(0, ""), user |-> Undefined, userId |-> NoId]

\* -------------------------------------------------- router.get('/profile')
\* .select('-password -refreshToken')
Select(user) == [user EXCEPT !.password = <<>>, !.refreshToken = Undefined]

\* data: user, the document as the query selected it
Profile(us, t, header) ==
    LET v == VerifyToken(header, t) IN
    IF ~v.next THEN Result(v.resp, us, NoId)
    ELSE LET user == FindById(us, v.userId) IN
         IF user = NoUser
         THEN Result(Response(404, "User not found"), us, v.userId)
         ELSE Result([Response(200, "Profile retrieved successfully") EXCEPT
                          !.userId = Select(user)._id,
                          !.username = Select(user).username,
                          !.email = Select(user).email,
                          !.refreshToken = Select(user).refreshToken,
                          !.password = Select(user).password],
                     us, v.userId)

\* -------------------------------------------------- router.post('/logout')
Logout(us, t, header) ==
    LET v == VerifyToken(header, t) IN
    IF ~v.next THEN Result(v.resp, us, NoId)
    ELSE LET user == FindById(us, v.userId) IN
         IF user = NoUser
         THEN Result(Response(404, "User not found"), us, v.userId)
         ELSE Result(Response(200, "User logged out successfully"),
                     Save(us, [user EXCEPT !.refreshToken = Null]), v.userId)

\* -------------------------------------------------- router.post('/verify')
Verify(us, t, header) ==
    LET v == VerifyToken(header, t) IN
    IF ~v.next THEN Result(v.resp, us, NoId)
    ELSE LET user == FindById(us, v.userId) IN
         IF user = NoUser
         THEN Result(Response(404, "User not found"), us, v.userId)
         ELSE Result([Response(200, "Token is valid") EXCEPT
                          !.userId = user._id, !.username = user.username,
                          !.email = user.email],
                     us, v.userId)

\* ------------------------------------------------- router.post('/refresh')
\* The test for a missing document left out.
RefreshRejects_MissingUserPasses(user, presented) ==
    user # NoUser /\ user.refreshToken # presented

\* !user || user.refreshToken !== req.body.refreshToken
RefreshRejects(user, presented) ==
    user = NoUser \/ user.refreshToken # presented

Refresh(us, t, presented) ==
    LET m == RefreshTokenMiddleware(presented, t) IN
    IF ~m.next THEN Result(m.resp, us, NoId)
    ELSE LET user == FindById(us, m.userId) IN
         IF RefreshRejects(user, presented)
         THEN Result(Response(401, "Invalid refresh token"), us, m.userId)
         ELSE Result([Response(200, "Access token refreshed successfully") EXCEPT
                          !.accessToken =
                              JwtSign(user._id, user.email, JWT_SECRET, AccessTTL, t)],
                     us, m.userId)

\* ------------------------------------------------------------- the clients
\* The tokens the clients hold: those of the grants on record.
KnownAccess == {grants[i][k].accessToken : i \in DOMAIN grants, k \in 1..2} \ {Undefined}
KnownRefresh == {grants[i][k].refreshToken : i \in DOMAIN grants, k \in 1..2} \ {Undefined}
\* The tokens of each account's latest grant.
LatestAccess == {grants[i][2].accessToken : i \in DOMAIN grants}
LatestRefresh == {grants[i][2].refreshToken : i \in DOMAIN grants}
\* The same payload signed with a key of the client's own.
Forge(token) == [token EXCEPT !.sig = ForgedSecret]
\* What a client can put in the Authorization header: nothing, "Bearer " alone,
\* an access token it was given, a forgery, or a refresh token in its place.
Headers ==
    {NoHeader, Bearer(Undefined)} \cup
    {Bearer(tok) : tok \in KnownAccess \cup LatestRefresh \cup
                            {Forge(a) : a \in LatestAccess}}
\* What a client can send as body.refreshToken: nothing, null, a refresh token
\* it was given, a forgery, or an access token in its place.
Bodies ==
    {Undefined, Null} \cup KnownRefresh \cup LatestAccess \cup
    {Forge(r) : r \in LatestRefresh}

\* A grant: the token pair a successful register or login returned, and the
\* role the account had at that moment.
Grant(resp, role) ==
    [accessToken |-> resp.accessToken, refreshToken |-> resp.refreshToken,
     role |-> role]
NoGrant == Grant(Response(0, ""), NoRole)

\* The bodies a client can post to /register (with the salt genSalt draws)
\* and to /login.
RegisterBodies == [username : Usernames \cup {""}, email : Emails \cup {""},
                   password : Passwords \cup {""},
                   confirmPassword : Passwords \cup {""}, salt : Salts]
LoginBodies == [email : Emails \cup {""}, password : Passwords \cup {""}]

Request(op, r) == [op |-> op, resp |-> r.resp]

\* A successful register or login becomes the account's latest grant.
Granted(req, us) ==
    IF req.op \in {"register", "login"} /\ req.resp.status \in {200, 201}
    THEN LET g == Grant(req.resp, us[req.resp.userId].role) IN
         IF req.resp.userId \in DOMAIN grants
         THEN [grants EXCEPT ![req.resp.userId] = <<@[2], g>>]
         ELSE Append(grants, <<NoGrant, g>>)
    ELSE grants

Handled(req, us) ==
    /\ users' = us
    /\ last' = req
    /\ grants' = Granted(req, us)
    /\ UNCHANGED <<now, ticks, pending, contents>>

Init ==
    /\ users = <<>>
    /\ now = 0
    /\ ticks = 0
    /\ grants = <<>>
    /\ last = Request("none", Result(Response(0, ""), <<>>, NoId))
    /\ pending = <<>>
    /\ contents = <<>>

\* The store answers every query and write in this specification, so the catch
\* branches of the handlers (500) are not taken.
DoRegister ==
    \E body \in RegisterBodies :
        LET r == Register(users, now, body.salt, body.username, body.email,
                          body.password, body.confirmPassword)
        IN /\ r.resp.status \in {201, 400, 409}
           /\ Handled(Request("register", r), r.users)

DoLogin ==
    \E body \in LoginBodies :
        LET r == Login(users, now, body.email, body.password)
        IN /\ r.resp.status \in {200, 400, 401}
           /\ Handled(Request("login", r), r.users)

DoProfile ==
    \E header \in Headers :
        LET r == Profile(users, now, header)
        IN Handled(Request("profile", r), r.users)

DoLogout ==
    \E header \in Headers :
        LET r == Logout(users, now, header)
        IN Handled(Request("logout", r), r.users)

DoVerify ==
    \E header \in Headers :
        LET r == Verify(users, now, header)
        IN Handled(Request("verify", r), r.users)

DoRefresh ==
    \E presented \in Bodies :
        LET r == Refresh(users, now, presented)
        IN Handled(Request("refresh", r), r.users)

\* The clock advances between requests.
Tick ==
    /\ ticks < MaxTicks
    /\ \E d \in TickSteps : now' = now + d
    /\ ticks' = ticks + 1
    /\ UNCHANGED <<users, grants, last, pending, contents>>

Next ==
    \/ DoRegister
    \/ DoLogin
    \/ DoProfile
    \/ DoLogout
    \/ DoVerify
    \/ DoRefresh
    \/ Tick

Spec == Init /\ [][Next]_vars

\* ------------------------------------------- /register, await by await
\* The handler of /register gives way to other requests at each await: after
\* the findOne that looks for a taken email or username (lines 40-42), and
\* after the first save (line 62).  A request in `pending` has passed the
\* validation and the findOne; stage "checked" is before the first save, stage
\* "inserted" before the tokens are signed and stored.
RemoveAt(seq, k) == [j \in 1..(Len(seq) - 1) |-> IF j < k THEN seq[j] ELSE seq[j + 1]]

\* The unique index on the login key: an insert of an email or username a
\* document already has fails with the duplicate-key error (code 11000).
DuplicateKey(us, body) ==
    \E i \in UserIds(us) : us[i].email = body.email \/ us[i].username = body.username

\* catch (error) of the /register handler
RegistrationError == Response(500, "An error occurred during registration")

\* Lines 16-49: validation and the findOne, answered at once when they reject.
RegisterRejected ==
    \E body \in RegisterBodies :
        LET r == Register(users, now, body.salt, body.username, body.email,
                          body.password, body.confirmPassword)
        IN /\ r.resp.status \in {400, 409}
           /\ Handled(Request("register", r), users)

\* Lines 16-49 passed: the request goes on to hash the password.
RegisterChecked ==
    \E body \in RegisterBodies :
        LET r == Register(users, now, body.salt, body.username, body.email,
                          body.password, body.confirmPassword)
        IN /\ r.resp.status = 201
           /\ Len(pending) < MaxInflight
           /\ pending' = Append(pending, [body |-> body, stage |-> "checked", id |-> NoId])
           /\ UNCHANGED <<users, now, ticks, grants, last, contents>>

\* Lines 52-62: new User(...).save().  A duplicate-key error is caught by the
\* handler's own catch (lines 92-98).
RegisterInsert ==
    \E k \in DOMAIN pending :
        LET body == pending[k].body
            id == Len(users) + 1
            newUser == [_id |-> id, username |-> body.username, email |-> body.email,
                        password |-> BcryptHash(body.password, body.salt),
                        refreshToken |-> Undefined, lastLogin |-> -1,
                        role |-> DefaultRole]
        IN /\ pending[k].stage = "checked"
           /\ IF DuplicateKey(users, body)
              THEN /\ last' = [op |-> "register", resp |-> RegistrationError]
                   /\ pending' = RemoveAt(pending, k)
                   /\ UNCHANGED users
              ELSE /\ users' = Append(users, newUser)
                   /\ pending' = [pending EXCEPT ![k].stage = "inserted", ![k].id = id]
                   /\ UNCHANGED last
           /\ UNCHANGED <<now, ticks, grants, contents>>

\* Lines 65-91: sign the tokens, store the refresh token, answer 201.
RegisterFinish ==
    \E k \in DOMAIN pending :
        LET body == pending[k].body
            id == pending[k].id
            accessToken == JwtSign(id, body.email, JWT_SECRET, AccessTTL, now)
            refreshTokenValue == JwtSign(id, "", JWT_REFRESH_SECRET, RefreshTTL, now)
            us == Save(users, [users[id] EXCEPT !.refreshToken = refreshTokenValue])
            req == [op |-> "register",
                    resp |-> [Response(201, "User registered successfully") EXCEPT
                                  !.userId = id, !.username = body.username,
                                  !.email = body.email, !.accessToken = accessToken,
                                  !.refreshToken = refreshTokenValue]]
        IN /\ pending[k].stage = "inserted"
           /\ users' = us
           /\ last' = req
           /\ grants' = Granted(req, us)
           /\ pending' = RemoveAt(pending, k)
           /\ UNCHANGED <<now, ticks, contents>>

NextRegister ==
    \/ RegisterRejected
    \/ RegisterChecked
    \/ RegisterInsert
    \/ RegisterFinish

SpecRegister == Init /\ [][NextRegister]_vars

\* ------------------------------------------------------------ role changes
\* An administrator gives an account another role.  The route that does so is
\* not part of the source files modelled here; the step is the write it makes
\* to the User document.
SetRole ==
    \E i \in UserIds(users), role \in Roles :
        /\ role # users[i].role
        /\ users' = [users EXCEPT ![i].role = role]
        /\ last' = [op |-> "setRole", resp |-> Response(200, "Role updated")]
        /\ UNCHANGED <<now, ticks, grants, pending, contents>>

NextRoles ==
    \/ DoRegister
    \/ DoLogin
    \/ SetRole

SpecRoles == Init /\ [][NextRoles]_vars

\* ------------------------------------------------- the gates on their own
\* The values of req.user a gate can be handed: none, the payload Login signs
\* (no role, no permissions), and payloads that carry a role, permissions or both.
GateUsers ==
    {NoClaims} \cup
    [userId : {1}, role : Roles \cup {NoRole},
     permissions : {NoPermissions} \cup {PermissionArray(ps) : ps \in SUBSET Permissions}]
RoleRequirements == {One(r) : r \in Roles} \cup {Many(rs) : rs \in SUBSET Roles}
PermissionRequirements ==
    {One(q) : q \in Permissions} \cup {Many(qs) : qs \in SUBSET Permissions}

GateCall(op, user, required, g) ==
    [op |-> op, resp |-> g.resp, next |-> g.next, user |-> user, required |-> required]

InitGates ==
    /\ users = <<>>
    /\ now = 0
    /\ ticks = 0
    /\ grants = <<>>
    /\ last = GateCall("none", NoClaims, Many({}), [next |-> FALSE, resp |-> Response(0, "")])
    /\ pending = <<>>
    /\ contents = <<>>

DoCheckRole ==
    \E user \in GateUsers, required \in RoleRequirements :
        /\ last' = GateCall("checkRole", user, required, CheckRole(user, required))
        /\ UNCHANGED <<users, now, ticks, grants, pending, contents>>

DoCheckPermission ==
    \E user \in GateUsers, required \in PermissionRequirements :
        /\ last' = GateCall("checkPermission", user, required,
                            CheckPermission(user, required))
        /\ UNCHANGED <<users, now, ticks, grants, pending, contents>>

NextGates ==
    \/ DoCheckRole
    \/ DoCheckPermission

SpecGates == InitGates /\ [][NextGates]_vars

\* ============================================================ content routes
\* The second router of src/routes/auth.js (lines 326-776).  A Content document
\* is modelled by the fields the handlers below read or write.
Statuses == {"draft", "published", "archived"}
\* a date field that was never set
NoDate == -1
NoContent == [_id |-> NoId, author |-> NoId, title |-> "", status |-> "", views |-> 0,
              deleted |-> FALSE, publishedAt |-> NoDate, updatedAt |-> NoDate,
              deletedAt |-> NoDate]
ContentIds(cs) == 1..Len(cs)
\* Content.findById(req.params.id)
FindContentById(cs, id) == IF id \in ContentIds(cs) THEN cs[id] ELSE NoContent
\* content.save()
SaveContent(cs, content) == [cs EXCEPT ![content._id] = content]

\* req.user as these handlers read it: whether it is set, req.user.id and
\* req.user.isAdmin.
NoCaller == [present |-> FALSE, id |-> NoId, isAdmin |-> FALSE]
Caller(id, isAdmin) == [present |-> TRUE, id |-> id, isAdmin |-> isAdmin]
\* req.user when it is the payload verifyToken decoded from an access token of
\* Register or Login, { userId, email, iat, exp }: it has neither `id` nor
\* `isAdmin`, both read as undefined.
CallerOfClaims(decoded) ==
    [present |-> IsToken(decoded), id |-> NoId, isAdmin |-> FALSE]

ContentResponse(status, message) ==
    [status |-> status, message |-> message, item |-> NoId, items |-> <<>>, total |-> 0]
ContentResult(resp, cs) == [resp |-> resp, contents |-> cs]

\* `authenticate`, first in the chain of the writing routes: a request without
\* an authenticated caller ends with 401 before the handler runs.
Authenticate(caller) ==
    IF caller.present
    THEN [next |-> TRUE, resp |-> ContentResponse(0, "")]
    ELSE [next |-> FALSE, resp |-> ContentResponse(401, "Not authenticated")]

\* ------------------------------------------------------- router.get('/:id')
\* content.status !== 'published' &&
\*   (!req.user || (req.user.id !== content.author._id.toString() && !req.user.isAdmin))
ViewDenied(content, caller) ==
    /\ content.status # "published"
    /\ \/ ~caller.present
       \/ caller.id # content.author /\ ~caller.isAdmin

\* The view not counted.
CountView_Lost(content) == content

\* content.views = (content.views || 0) + 1
CountView(content) == [content EXCEPT !.views = @ + 1]

GetById(cs, caller, id) ==
    LET content == FindContentById(cs, id) IN
    IF content = NoContent
    THEN ContentResult(ContentResponse(404, "Content not found"), cs)
    ELSE IF ViewDenied(content, caller)
    THEN ContentResult(
             ContentResponse(403, "You are not authorized to view this content"), cs)
    ELSE IF content.status = "published"
    THEN ContentResult([ContentResponse(200, "") EXCEPT !.item = id],
                       SaveContent(cs, CountView(content)))
    ELSE ContentResult([ContentResponse(200, "") EXCEPT !.item = id], cs)

\* ---------------------------------------------------------- router.get('/')
\* The status of the query kept for a request without req.user.
ListFilter_QueryStatusKept(caller, status, author) ==
    [status |-> IF ~caller.present /\ status = "" THEN "published" ELSE status,
     author |-> author,
     restricted |-> caller.present /\ ~caller.isAdmin,
     orAuthor |-> caller.id]

\* The filter built from the query (status, author: "" and NoId when absent)
\* and from req.user; `restricted` stands for the $or of published and own.
ListFilter(caller, status, author) ==
    [status |-> IF ~caller.present THEN "published" ELSE status,
     author |-> author,
     restricted |-> caller.present /\ ~caller.isAdmin,
     orAuthor |-> caller.id]

\* Whether a document matches the filter: its conditions are conjoined.
Matches(content, filter) ==
    /\ filter.status = "" \/ content.status = filter.status
    /\ filter.author = NoId \/ content.author = filter.author
    /\ filter.restricted =>
           content.status = "published" \/ content.author = filter.orAuthor

\* .sort({ createdAt: order === 'asc' ? 1 : -1 }): documents are created in the
\* order of their _id.
Sorted(ids, order) ==
    [k \in 1..Cardinality(ids) |->
        CHOOSE x \in ids :
            Cardinality({y \in ids : IF order = "asc" THEN y < x ELSE y > x}) = k - 1]

\* .skip(skip).limit(limit)
Page(seq, skip, limit) ==
    [k \in 1..(IF Len(seq) - skip < 0 THEN 0
               ELSE IF Len(seq) - skip < limit THEN Len(seq) - skip ELSE limit) |->
        seq[skip + k]]

List(cs, caller, query) ==
    LET filter == ListFilter(caller, query.status, query.author)
        found == {id \in ContentIds(cs) : Matches(cs[id], filter)}
        skip == (query.page - 1) * query.limit
    IN ContentResult([ContentResponse(200, "") EXCEPT
                          !.items = Page(Sorted(found, query.order), skip, query.limit),
                          !.total = Cardinality(found)],
                     cs)

\* --------------------------------------------------------- router.post('/')
\* status = 'draft' when the body has none (""); the body carries a title and
\* a content, so validateContent lets it pass.
Create(cs, t, caller, body) ==
    LET a == Authenticate(caller)
        st == IF body.status = "" THEN "draft" ELSE body.status
        id == Len(cs) + 1
    IN IF ~a.next THEN ContentResult(a.resp, cs)
       ELSE IF st \notin {"draft", "published"}
       THEN ContentResult(
                ContentResponse(400, "Invalid status. Must be draft or published"), cs)
       ELSE ContentResult(
                [ContentResponse(201, "Content created successfully") EXCEPT !.item = id],
                Append(cs, [NoContent EXCEPT !._id = id, !.author = caller.id,
                                             !.title = body.title, !.status = st,
                                             !.updatedAt = t]))

\* The test of the caller against the author left out.
NotAuthorNorAdmin_Unchecked(content, caller) == FALSE

\* req.user.id !== content.author.toString() && !req.user.isAdmin
NotAuthorNorAdmin(content, caller) ==
    caller.id # content.author /\ ~caller.isAdmin

\* ---------------------------------------------------- router.put('/:id')
\* allowedFields with 'status' among them.
AllowedFields_WithStatus == {"title", "content", "category", "tags", "excerpt", "status"}

\* const allowedFields = ['title', 'content', 'category', 'tags', 'excerpt']
AllowedFields == {"title", "content", "category", "tags", "excerpt"}

\* Object.keys(req.body).forEach(key => { if (allowedFields.includes(key))
\* content[key] = req.body[key] }); a key the body does not have is "" (NoId
\* for author).
Assigned(content, body) ==
    [content EXCEPT
        !.title = IF body.title # "" /\ "title" \in AllowedFields
                  THEN body.title ELSE @,
        !.status = IF body.status # "" /\ "status" \in AllowedFields
                   THEN body.status ELSE @,
        !.author = IF body.author # NoId /\ "author" \in AllowedFields
                   THEN body.author ELSE @]

\* The body passes validateContentUpdate.
Update(cs, t, caller, id, body) ==
    LET a == Authenticate(caller)
        content == FindContentById(cs, id)
    IN IF ~a.next THEN ContentResult(a.resp, cs)
       ELSE IF content = NoContent
       THEN ContentResult(ContentResponse(404, "Content not found"), cs)
       ELSE IF NotAuthorNorAdmin(content, caller)
       THEN ContentResult(
                ContentResponse(403, "You are not authorized to update this content"), cs)
       ELSE ContentResult(
                [ContentResponse(200, "Content updated successfully") EXCEPT !.item = id],
                SaveContent(cs, [Assigned(content, body) EXCEPT !.updatedAt = t]))

\* ------------------------------------------------ router.patch('/:id/publish')
\* The test for an item that is published already left out.
AlreadyPublished_Unchecked(content) == FALSE

\* content.status === 'published'
AlreadyPublished(content) == content.status = "published"

Publish(cs, t, caller, id) ==
    LET a == Authenticate(caller)
        content == FindContentById(cs, id)
    IN IF ~a.next THEN ContentResult(a.resp, cs)
       ELSE IF content = NoContent
       THEN ContentResult(ContentResponse(404, "Content not found"), cs)
       ELSE IF NotAuthorNorAdmin(content, caller)
       THEN ContentResult(
                ContentResponse(403, "You are not authorized to publish this content"), cs)
       ELSE IF AlreadyPublished(content)
       THEN ContentResult(ContentResponse(400, "Content is already published"), cs)
       ELSE IF content.status = "archived"
       THEN ContentResult(ContentResponse(400, "Cannot publish archived content"), cs)
       ELSE ContentResult(
                [ContentResponse(200, "Content published successfully") EXCEPT !.item = id],
                SaveContent(cs, [content EXCEPT !.status = "published",
                                                !.publishedAt = t, !.updatedAt = t]))

\* ------------------------------------------------ router.patch('/:id/archive')
\* The test for an item that is archived already left out.
AlreadyArchived_Unchecked(content) == FALSE

\* content.status === 'archived'
AlreadyArchived(content) == content.status = "archived"

Archive(cs, t, caller, id) ==
    LET a == Authenticate(caller)
        content == FindContentById(cs, id)
    IN IF ~a.next THEN ContentResult(a.resp, cs)
       ELSE IF content = NoContent
       THEN ContentResult(ContentResponse(404, "Content not found"), cs)
       ELSE IF NotAuthorNorAdmin(content, caller)
       THEN ContentResult(
                ContentResponse(403, "You are not authorized to archive this content"), cs)
       ELSE IF AlreadyArchived(content)
       THEN ContentResult(ContentResponse(400, "Content is already archived"), cs)
       ELSE ContentResult(
                [ContentResponse(200, "Content archived successfully") EXCEPT !.item = id],
                SaveContent(cs, [content EXCEPT !.status = "archived", !.updatedAt = t]))

\* ------------------------------------------------- router.delete('/:id')
\* A soft delete: the document stays in the collection.
Delete(cs, t, caller, id) ==
    LET a == Authenticate(caller)
        content == FindContentById(cs, id)
    IN IF ~a.next THEN ContentResult(a.resp, cs)
       ELSE IF content = NoContent
       THEN ContentResult(ContentResponse(404, "Content not found"), cs)
       ELSE IF NotAuthorNorAdmin(content, caller)
       THEN ContentResult(
                ContentResponse(403, "You are not authorized to delete this content"), cs)
       ELSE ContentResult(
                ContentResponse(200, "Content deleted successfully"),
                SaveContent(cs, [content EXCEPT !.deleted = TRUE, !.deletedAt = t]))

\* ------------------------------------------------- the clients of /content
\* req.user of a request: not set, or an account, admin or not.
ContentCallers ==
    {NoCaller} \cup {Caller(i, a) : i \in UserIds(users), a \in BOOLEAN}
\* The ids a request can name: every document, and one that does not exist.
AskedIds == 1..(Len(contents) + 1)
\* The query of GET /: status and author filters, the order, page and limit.
Queries ==
    {[status |-> st, author |-> au, order |-> pg.order, page |-> pg.page,
      limit |-> pg.limit] :
        st \in Statuses \cup {""}, au \in UserIds(users) \cup {NoId},
        pg \in {[order |-> "desc", page |-> DefaultPage, limit |-> DefaultLimit],
                [order |-> "asc", page |-> 2, limit |-> 1]}}

\* The bodies a client posts to create an item and puts to update one: an
\* update carries a new title, or a status (a key the handler is to ignore).
CreateBodies == [title : {"first"}, status : Statuses \cup {""}]
UpdateBodies == {[title |-> "second", status |-> "", author |-> NoId],
                 [title |-> "", status |-> "draft", author |-> NoId]}

ContentCall(op, caller, r) == [op |-> op, caller |-> caller, resp |-> r.resp]

ContentHandled(call, cs) ==
    /\ contents' = cs
    /\ last' = call
    /\ UNCHANGED <<users, now, ticks, grants, pending>>

\* The accounts of the content clients: alice and bob have registered and alice
\* has logged in.
InitContent ==
    LET salt == CHOOSE x \in Salts : TRUE
        r1 == Register(<<>>, 0, salt, "alice", "a@x.com", "Secret1!", "Secret1!")
        r2 == Register(r1.users, 0, salt, "bob", "b@x.com", "Secret1!", "Secret1!")
        r3 == Login(r2.users, 0, "a@x.com", "Secret1!")
    IN /\ users = r3.users
       /\ now = 0
       /\ ticks = 0
       /\ grants = << <<Grant(r1.resp, DefaultRole), Grant(r3.resp, DefaultRole)>>,
                      <<NoGrant, Grant(r2.resp, DefaultRole)>> >>
       /\ last = ContentCall("none", NoCaller, ContentResult(ContentResponse(0, ""), <<>>))
       /\ pending = <<>>
       /\ contents = <<>>

DoCreate ==
    \E caller \in ContentCallers, body \in CreateBodies :
        LET r == Create(contents, now, caller, body)
        IN /\ Len(contents) < MaxContents
           /\ ContentHandled(ContentCall("create", caller, r), r.contents)

DoGetById ==
    \E caller \in ContentCallers, id \in AskedIds :
        LET r == GetById(contents, caller, id)
        IN /\ \A i \in ContentIds(r.contents) : r.contents[i].views <= MaxViews
           /\ ContentHandled(ContentCall("getById", caller, r), r.contents)

DoList ==
    \E caller \in ContentCallers, query \in Queries :
        LET r == List(contents, caller, query)
        IN /\ r.resp.status = 200
           /\ ContentHandled(ContentCall("list", caller, r), r.contents)

DoPublish ==
    \E caller \in ContentCallers, id \in AskedIds :
        LET r == Publish(contents, now, caller, id)
        IN /\ r.resp.status \in {200, 400, 401, 403, 404}
           /\ ContentHandled(ContentCall("publish", caller, r), r.contents)

DoArchive ==
    \E caller \in ContentCallers, id \in AskedIds :
        LET r == Archive(contents, now, caller, id)
        IN /\ r.resp.status \in {200, 400, 401, 403, 404}
           /\ ContentHandled(ContentCall("archive", caller, r), r.contents)

\* The reading routes, with the two routes that bring an item to each status:
\* create makes drafts and published items, archive the archived ones.
NextContent ==
    \/ DoCreate
    \/ DoGetById
    \/ DoList
    \/ DoArchive

SpecContent == InitContent /\ [][NextContent]_vars

\* ------------------------------------------ the writing routes of /content
DoUpdate ==
    \E caller \in ContentCallers, id \in AskedIds, body \in UpdateBodies :
        LET r == Update(contents, now, caller, id, body)
        IN /\ r.resp.status \in {200, 401, 403, 404}
           /\ ContentHandled(ContentCall("update", caller, r), r.contents)

DoDelete ==
    \E caller \in ContentCallers, id \in AskedIds :
        LET r == Delete(contents, now, caller, id)
        IN /\ r.resp.status \in {200, 401, 403, 404}
           /\ ContentHandled(ContentCall("delete", caller, r), r.contents)

NextWorkflow ==
    \/ DoCreate
    \/ DoUpdate
    \/ DoPublish
    \/ DoArchive
    \/ DoDelete

SpecWorkflow == InitContent /\ [][NextWorkflow]_vars

\* ================================================================== claims
RegisterOf(b) ==
    Register(users, now, b.salt, b.username, b.email, b.password, b.confirmPassword)

\* A refresh token the server signed and that has not expired.
LiveRefreshToken(tok) == JwtVerify(tok, JWT_REFRESH_SECRET, now) = "ok"
\* An access token the server signed and that has not expired, of an existing account.
LiveAccessToken(tok) ==
    JwtVerify(tok, JWT_SECRET, now) = "ok" /\ tok.userId \in UserIds(users)

\* C2: right after a second successful login (or a login after the register)
\* of an account, Refresh with the refresh token of the earlier call answers
\* 401 and Refresh with the refresh token of this call answers 200.
C2_SecondLoginInvalidatesFirst ==
    \A i \in UserIds(users) :
        ( /\ last.op = "login"
          /\ last.resp.status = 200
          /\ last.resp.userId = i
          /\ last.resp.refreshToken = grants[i][2].refreshToken
          /\ grants[i][1] # NoGrant ) =>
        /\ Refresh(users, now, grants[i][1].refreshToken).resp.status = 401
        /\ Refresh(users, now, grants[i][2].refreshToken).resp.status = 200

\* C3: in every state Refresh accepts, per account, at most one refresh
\* token, the one stored on the account's record; a refresh token with a
\* valid signature that has not expired and is not the stored one is
\* answered 401.
C3_RefreshAcceptsOnlyStored ==
    \A tok \in Bodies :
        LET r == Refresh(users, now, tok) IN
        /\ r.resp.status = 200 =>
              /\ tok.userId \in UserIds(users)
              /\ tok = users[tok.userId].refreshToken
        /\ ( /\ LiveRefreshToken(tok)
             /\ tok.userId \in UserIds(users)
             /\ tok # users[tok.userId].refreshToken ) => r.resp.status = 401

\* C3 witness: a Refresh was answered 401 while an account holds a superseded
\* refresh token that is validly signed, unexpired and not the stored one.
C3_Witness ==
    /\ last.op = "refresh"
    /\ last.resp.status = 401
    /\ \E i \in UserIds(users) :
          /\ grants[i][1] # NoGrant
          /\ LiveRefreshToken(grants[i][1].refreshToken)
          /\ grants[i][1].refreshToken # users[i].refreshToken
          /\ grants[i][1].refreshToken \in Bodies

\* C4: in the state a successful register leaves, a login with the same
\* email and password answers 200 with an access token other than the one the
\* register returned.
C4_LoginAfterRegisterFreshToken ==
    (last.op = "register" /\ last.resp.status = 201) =>
        \A password \in Passwords :
            BcryptCompare(password, FindById(users, last.resp.userId).password) =>
                LET r == Login(users, now, last.resp.email, password) IN
                /\ r.resp.status = 200
                /\ r.resp.accessToken # last.resp.accessToken

\* C5: a login for an email no account has and a login with the wrong
\* password for an email an account has get the same response: status 401,
\* the same message, no data; neither changes the collection.
C5_LoginFailureUniform ==
    \A e1 \in Emails, e2 \in Emails, p1 \in Passwords, p2 \in Passwords :
        ( /\ FindOneByEmail(users, e1) = NoUser
          /\ FindOneByEmail(users, e2) # NoUser
          /\ ~BcryptCompare(p2, FindOneByEmail(users, e2).password) ) =>
            LET unknown == Login(users, now, e1, p1)
                wrong == Login(users, now, e2, p2)
            IN /\ unknown.resp.status = 401
               /\ wrong.resp = unknown.resp
               /\ unknown.users = users
               /\ wrong.users = users

\* C5 witness: a login was answered 401 in a state where one email has an
\* account and another has none, so both failures can occur.
C5_Witness ==
    /\ last.op = "login"
    /\ last.resp.status = 401
    /\ \E e1 \in Emails, e2 \in Emails :
          FindOneByEmail(users, e1) = NoUser /\ FindOneByEmail(users, e2) # NoUser

C7_RefreshVerifiesAndResolves ==
    \A tok \in Bodies :
        LET r == Refresh(users, now, tok) IN
        IF LiveRefreshToken(tok)
        THEN r.reqUserId = tok.userId
        ELSE r.resp.status = 401

\* C8: Refresh never changes the collection, and with the stored, unexpired
\* refresh token of an account it answers 200 with a new access token and no
\* refresh token, so that the same token succeeds again.
C8_RefreshRepeatable ==
    /\ \A tok \in Bodies : Refresh(users, now, tok).users = users
    /\ \A i \in UserIds(users) :
          LiveRefreshToken(users[i].refreshToken) =>
              LET r == Refresh(users, now, users[i].refreshToken) IN
              /\ r.resp.status = 200
              /\ IsToken(r.resp.accessToken)
              /\ r.resp.refreshToken = Undefined
              /\ Refresh(r.users, now, users[i].refreshToken).resp.status = 200

\* C9: a Logout with a live access token of an account answers 200 and leaves
\* the account's stored refresh token null, and a second Logout on the result
\* gives the same answer and leaves it null.
C9_LogoutIdempotent ==
    \A tok \in KnownAccess :
        LiveAccessToken(tok) =>
            LET first == Logout(users, now, Bearer(tok))
                second == Logout(first.users, now, Bearer(tok))
            IN /\ first.resp.status = 200
               /\ first.users[tok.userId].refreshToken = Null
               /\ second.resp = first.resp
               /\ second.users[tok.userId].refreshToken = Null

\* C10 as stated: a register whose email is taken, whose password and
\* confirmation differ or whose password has fewer than 6 characters answers
\* 400 and adds no record.
C10_RegisterRejects400 ==
    \A b \in RegisterBodies :
        ( \/ (b.email # "" /\ FindOneByEmail(users, b.email) # NoUser)
          \/ b.password # b.confirmPassword
          \/ Len(b.password) < 6 ) =>
            /\ RegisterOf(b).resp.status = 400
            /\ RegisterOf(b).users = users

\* C10 amended: a register whose password and confirmation differ or whose
\* password has fewer than 6 characters answers 400; a register that passes
\* these checks and whose email is taken answers 409; none adds a record.
C10_RegisterRejects ==
    \A b \in RegisterBodies :
        /\ (b.password # b.confirmPassword \/ Len(b.password) < 6) =>
              /\ RegisterOf(b).resp.status = 400
              /\ RegisterOf(b).users = users
        /\ ( /\ b.username # ""
             /\ b.password = b.confirmPassword
             /\ Len(b.password) >= 6
             /\ b.email # ""
             /\ FindOneByEmail(users, b.email) # NoUser ) =>
              /\ RegisterOf(b).resp.status = 409
              /\ RegisterOf(b).users = users

\* C10 witness: a register was answered 409, with the record that caused it
\* in the collection.
C10_Witness ==
    /\ last.op = "register"
    /\ last.resp.status = 409
    /\ users # <<>>

\* C11: a Register that is rejected because its email or username is already
\* registered is answered 409, never with a server error, also when two
\* Registers run at the same time, both pass the findOne, and the store
\* rejects the second insert: every Register is answered 201, 400 or 409.
C11_DuplicateIsConflict ==
    last.op = "register" => last.resp.status \in {201, 400, 409}

\* C12: Register is the only operation that creates a record: whenever a step
\* changes the number of records, the step is a successful Register and it adds
\* exactly one; Login, Logout, Refresh, Verify and Get-Profile never add one.
C12_OnlyRegisterCreates ==
    [][Len(users') # Len(users) =>
           /\ last'.op = "register"
           /\ last'.resp.status = 201
           /\ Len(users') = Len(users) + 1]_vars

\* Two records exist and the latest request is a successful Login.
C12_Witness ==
    /\ last.op = "login"
    /\ last.resp.status = 200
    /\ Len(users) = 2

\* C13: the outcome of Verify-Access is that of the token verifier alone,
\* whatever the store holds: POST /verify writes nothing, answers 200 for every
\* token verifyToken lets pass and verifyToken's own response otherwise, and
\* answers the same over an empty collection and over the collection after any
\* Login or Logout.
C13_VerifyIndependentOfStore ==
    \A h \in Headers :
        LET r == Verify(users, now, h)
            v == VerifyToken(h, now)
        IN /\ r.users = users
           /\ IF v.next THEN r.resp.status = 200 ELSE r.resp = v.resp
           /\ r.resp = Verify(<<>>, now, h).resp
           /\ \A b \in LoginBodies :
                  r.resp = Verify(Login(users, now, b.email, b.password).users, now, h).resp
           /\ \A h2 \in Headers :
                  r.resp = Verify(Logout(users, now, h2).users, now, h).resp

\* C14: every access token handed out passes verifyToken, with the token's
\* payload as req.user, at every time before its expiry (issue time + 1h), and
\* is answered 401 'Token has expired' from its expiry on.
C14_AccessTokenLifetime ==
    \A tok \in KnownAccess :
        LET v == VerifyToken(Bearer(tok), now) IN
        /\ tok.exp = tok.iat + AccessTTL
        /\ IF now < tok.exp
           THEN v.next /\ v.user = tok
           ELSE ~v.next /\ v.resp = Response(401, "Token has expired")

\* An access token on record has reached its expiry and verifyToken has
\* answered a request with 'Token has expired'.
C14_Witness ==
    /\ \E tok \in KnownAccess : now >= tok.exp
    /\ last.op \in {"verify", "profile", "logout"}
    /\ last.resp = Response(401, "Token has expired")

\* C15: the claims verifyToken hands on for an access token of Register or
\* Login name the account and carry a role and a permission set, so that a role
\* gate open to every role lets the caller pass.
C15_ClaimsCarryRoleAndPermissions ==
    \A tok \in KnownAccess :
        LET v == VerifyToken(Bearer(tok), now) IN
        v.next =>
            /\ Claims(v.user).userId \in UserIds(users)
            /\ Claims(v.user).role # NoRole
            /\ Claims(v.user).permissions # NoPermissions
            /\ CheckRole(Claims(v.user), Many(Roles)).next

\* C16: once an account's role has been changed, an unexpired access token
\* issued to it (before or after the change) passes verifyToken, and the role
\* gate lets it pass for exactly the role the account had when the token was
\* issued: the old role for a token from before the change, the new role for
\* a token from after it.
C16_TokenKeepsRoleOfIssue ==
    \A i \in DOMAIN grants : \A k \in 1..2 :
        LET g == grants[i][k]
            v == VerifyToken(Bearer(g.accessToken), now)
        IN ( /\ g # NoGrant
             /\ now < g.accessToken.exp
             /\ (users[i].role # DefaultRole \/ users[i].role # g.role) ) =>
           /\ v.next
           /\ \A role \in Roles :
                  CheckRole(Claims(v.user), One(role)).next <=> (role = g.role)

\* C17: checkRole answers 401 when the request has no claims; otherwise it lets
\* the request proceed exactly when the caller's role is an element of the
\* allowed set (a single role being the one-element set), and answers 403 when
\* the caller has no role or a role outside the set.
C17_RoleGate ==
    last.op = "checkRole" =>
        LET allowed == IF last.required.isArray THEN last.required.items
                       ELSE {last.required.item}
        IN IF last.user = NoClaims
           THEN ~last.next /\ last.resp = Response(401, "User not authenticated")
           ELSE /\ last.next <=> (last.user.role # NoRole /\ last.user.role \in allowed)
                /\ ~last.next => last.resp = Response(403, "Insufficient permissions")

\* checkRole was given a single role and let a caller of that role pass.
C17_Witness ==
    /\ last.op = "checkRole"
    /\ last.next
    /\ ~last.required.isArray
    /\ last.user.role = last.required.item

\* C18: checkPermission lets an authenticated request proceed exactly when the
\* caller's permissions and the required permissions have an element in common;
\* a caller with no permissions, and an empty required set, get 403.
C18_PermissionGate ==
    (last.op = "checkPermission" /\ last.user # NoClaims) =>
        LET required == IF last.required.isArray THEN last.required.items
                        ELSE {last.required.item}
            held == last.user.permissions.items
        IN /\ last.next <=> (held \cap required # {})
           /\ (held = {} \/ required = {}) =>
                  last.resp = Response(403, "Insufficient permissions")

\* checkPermission let pass a caller who holds one of two required permissions.
C18_Witness ==
    /\ last.op = "checkPermission"
    /\ last.next
    /\ last.required.isArray
    /\ Cardinality(last.required.items) = 2
    /\ Cardinality(last.user.permissions.items) = 1

\* C19: get-by-id lets an anonymous caller see an item exactly when it is
\* published, an authenticated non-admin caller exactly when it is published
\* or the caller is its author, an admin always, and answers 403 otherwise; and
\* the owner who presents the access token of their Login, the claims of which
\* become req.user, sees their own item whatever its status.
C19_GetByIdVisibility ==
    /\ \A id \in ContentIds(contents) : \A caller \in ContentCallers :
           LET content == contents[id]
               r == GetById(contents, caller, id).resp
           IN /\ r.status \in {200, 403}
              /\ r.status = 200 <=>
                     IF ~caller.present THEN content.status = "published"
                     ELSE IF caller.isAdmin THEN TRUE
                     ELSE content.status = "published" \/ caller.id = content.author
    /\ \A id \in ContentIds(contents) : \A i \in UserIds(users) :
           LET v == VerifyToken(Bearer(grants[i][2].accessToken), now) IN
           (users[i].lastLogin >= 0 /\ v.next /\ contents[id].author = i) =>
               GetById(contents, CallerOfClaims(v.user), id).resp.status = 200

Times == {now, now + 1}

\* The id of no document of the collection.
AbsentId == Len(contents) + 1

\* C21: for a caller who is not authorized for an item, get-by-id, update,
\* publish, archive and delete answer exactly as they answer the same caller
\* about an id that no item has: the response does not tell whether the item
\* exists.
C21_ExistenceNotRevealed ==
    \A caller \in ContentCallers, id \in ContentIds(contents), t \in Times :
        /\ ViewDenied(contents[id], caller)
               => GetById(contents, caller, id).resp
                      = GetById(contents, caller, AbsentId).resp
        /\ (caller.present /\ NotAuthorNorAdmin(contents[id], caller))
               => /\ \A body \in UpdateBodies :
                         Update(contents, t, caller, id, body).resp
                             = Update(contents, t, caller, AbsentId, body).resp
                  /\ Publish(contents, t, caller, id).resp
                         = Publish(contents, t, caller, AbsentId).resp
                  /\ Archive(contents, t, caller, id).resp
                         = Archive(contents, t, caller, AbsentId).resp
                  /\ Delete(contents, t, caller, id).resp
                         = Delete(contents, t, caller, AbsentId).resp

\* ------------------------------------------------------------------- C22
\* C22: a publish request of the author or of an admin for an item that is
\* published or archived already is answered 400 and leaves the item, its
\* status, publishedAt and updatedAt with it, as it was; the request succeeds
\* only for a draft, which it makes published.
C22_PublishOnlyFromDraft ==
    \A caller \in ContentCallers, id \in ContentIds(contents), t \in Times :
        (caller.present /\ ~NotAuthorNorAdmin(contents[id], caller)) =>
            LET r == Publish(contents, t, caller, id) IN
            IF contents[id].status \in {"published", "archived"}
            THEN /\ r.resp.status = 400
                 /\ r.contents = contents
            ELSE /\ contents[id].status = "draft"
                 /\ r.resp.status = 200
                 /\ r.contents[id].status = "published"

\* The author or an admin asked to publish an archived item, which had been
\* published before, and was refused.
C22_Witness ==
    /\ last.op = "publish"
    /\ last.resp.status = 400
    /\ last.resp.message = "Cannot publish archived content"
    /\ last.caller.present
    /\ \E id \in ContentIds(contents) :
           /\ contents[id].status = "archived"
           /\ contents[id].publishedAt # NoDate
           /\ ~NotAuthorNorAdmin(contents[id], last.caller)

\* ------------------------------------------------------------------- C23
\* C23: archived is terminal: whatever create, update, publish, archive or
\* delete request is handled next, and whoever sends it (admins included), an
\* item whose status is archived is still in the collection afterwards and
\* its status is still archived.
C23_ArchivedIsTerminal ==
    [][\A id \in ContentIds(contents) :
           contents[id].status = "archived"
               => /\ id \in ContentIds(contents')
                  /\ contents'[id].status = "archived"]_vars

\* An admin who is not the author has just updated an archived item (the
\* title of the request was assigned), and the item is archived still.
C23_Witness ==
    /\ last.op = "update"
    /\ last.resp.status = 200
    /\ last.caller.isAdmin
    /\ \E id \in ContentIds(contents) :
           /\ last.resp.item = id
           /\ last.caller.id # contents[id].author
           /\ contents[id].status = "archived"
           /\ contents[id].title = "second"

\* ------------------------------------------------------------------- C24
\* C24: a publish or archive request of an authenticated caller who is
\* neither the author of the item nor an admin is answered 403 whatever the
\* status of the item is (the caller is tested before the status is), and
\* leaves the collection as it was; and whenever the status of an item
\* changes, the request handled was sent by its author or by an admin.
C24_OnlyAuthorOrAdminChangesStatus ==
    /\ [](\A caller \in ContentCallers, id \in ContentIds(contents), t \in Times :
              (/\ caller.present
               /\ caller.id # contents[id].author
               /\ ~caller.isAdmin)
                  => LET p == Publish(contents, t, caller, id)
                         a == Archive(contents, t, caller, id)
                     IN /\ p.resp.status = 403
                        /\ p.contents = contents
                        /\ a.resp.status = 403
                        /\ a.contents = contents)
    /\ [][\A id \in ContentIds(contents) :
              contents'[id].status # contents[id].status
                  => /\ last'.caller.present
                     /\ \/ last'.caller.id = contents[id].author
                        \/ last'.caller.isAdmin]_vars

\* An authenticated caller, not the author and not an admin, asked to
\* publish an item that is published already and was answered 403, not 400.
C24_Witness ==
    /\ last.op = "publish"
    /\ last.resp.status = 403
    /\ last.caller.present
    /\ ~last.caller.isAdmin
    /\ \E id \in ContentIds(contents) :
           /\ contents[id].status = "published"
           /\ contents[id].author # last.caller.id

\* ------------------------------------------------------------------- C25
\* C25 as stated: a list request and a get-by-id request, allowed or denied,
\* leave every field of every item of the collection as it was.
C25_ReadsChangeNothing ==
    \A caller \in ContentCallers :
        /\ \A query \in Queries : List(contents, caller, query).contents = contents
        /\ \A id \in AskedIds : GetById(contents, caller, id).contents = contents

\* C25, amended: a list request leaves the collection as it was, and so does
\* a get-by-id request that is denied, that finds nothing, or that returns a
\* draft or an archived item; a get-by-id request that returns a published
\* item adds one to the views of that item and changes no other field and no
\* other item.
C25_ReadsChangeOnlyViews ==
    \A caller \in ContentCallers :
        /\ \A query \in Queries : List(contents, caller, query).contents = contents
        /\ \A id \in AskedIds :
               LET r == GetById(contents, caller, id) IN
               r.contents =
                   IF r.resp.status = 200 /\ contents[id].status = "published"
                   THEN [contents EXCEPT ![id].views = @ + 1]
                   ELSE contents

\* A get-by-id request has just returned a published item, whose views were
\* counted.
C25_Witness ==
    /\ last.op = "getById"
    /\ last.resp.status = 200
    /\ \E id \in ContentIds(contents) :
           /\ last.resp.item = id
           /\ contents[id].status = "published"
           /\ contents[id].views > 0

\* =============================================== the store out of service
\* The handlers when the store rejects the first query they send it: the
\* rejected await throws inside the handler's try block and its catch block
\* answers.  What a handler tests before it queries the store is as above.
RegisterCatch == Response(500, "An error occurred during registration")
LoginCatch == Response(500, "An error occurred during login")
ProfileCatch == Response(500, "An error occurred while fetching profile")
LogoutCatch == Response(500, "An error occurred during logout")
VerifyCatch == Response(401, "Token verification failed")
RefreshCatch == Response(500, "An error occurred while refreshing token")

\* /register: User.findOne rejects.
RegisterUnavailable(us, username, email, password, confirmPassword) ==
    IF username = "" \/ email = "" \/ password = "" \/ confirmPassword = ""
    THEN Result(Response(400, "Please provide all required fields"), us, NoId)
    ELSE IF password # confirmPassword
    THEN Result(Response(400, "Passwords do not match"), us, NoId)
    ELSE IF PasswordTooShort(password)
    THEN Result(Response(400, "Password must be at least 6 characters long"), us, NoId)
    ELSE Result(RegisterCatch, us, NoId)

\* /login: User.findOne rejects.
LoginUnavailable(us, email, password) ==
    IF email = "" \/ password = ""
    THEN Result(Response(400, "Please provide email and password"), us, NoId)
    ELSE Result(LoginCatch, us, NoId)

\* /profile, /logout, /verify: User.findById rejects after verifyToken.
ProfileUnavailable(us, t, header) ==
    LET v == VerifyToken(header, t) IN
    IF ~v.next THEN Result(v.resp, us, NoId) ELSE Result(ProfileCatch, us, v.userId)

LogoutUnavailable(us, t, header) ==
    LET v == VerifyToken(header, t) IN
    IF ~v.next THEN Result(v.resp, us, NoId) ELSE Result(LogoutCatch, us, v.userId)

VerifyUnavailable(us, t, header) ==
    LET v == VerifyToken(header, t) IN
    IF ~v.next THEN Result(v.resp, us, NoId) ELSE Result(VerifyCatch, us, v.userId)

\* /refresh: User.findById rejects after the refreshToken middleware.
RefreshUnavailable(us, t, presented) ==
    LET m == RefreshTokenMiddleware(presented, t) IN
    IF ~m.next THEN Result(m.resp, us, NoId) ELSE Result(RefreshCatch, us, m.userId)

\* The requests that reach the store while it is out of service.  The store
\* fails for one request at a time: registers and logins that it serves go on
\* in between.
UnavailableOps == {"register/unavailable", "login/unavailable", "profile/unavailable",
                   "logout/unavailable", "verify/unavailable", "refresh/unavailable"}

DoRegisterUnavailable ==
    \E body \in RegisterBodies :
        LET r == RegisterUnavailable(users, body.username, body.email,
                                     body.password, body.confirmPassword)
        IN /\ r.resp.status # 400
           /\ Handled(Request("register/unavailable", r), r.users)

DoLoginUnavailable ==
    \E body \in LoginBodies :
        LET r == LoginUnavailable(users, body.email, body.password)
        IN /\ r.resp.status # 400
           /\ Handled(Request("login/unavailable", r), r.users)

DoProfileUnavailable ==
    \E header \in Headers :
        LET r == ProfileUnavailable(users, now, header)
        IN /\ VerifyToken(header, now).next
           /\ Handled(Request("profile/unavailable", r), r.users)

DoLogoutUnavailable ==
    \E header \in Headers :
        LET r == LogoutUnavailable(users, now, header)
        IN /\ VerifyToken(header, now).next
           /\ Handled(Request("logout/unavailable", r), r.users)

DoVerifyUnavailable ==
    \E header \in Headers :
        LET r == VerifyUnavailable(users, now, header)
        IN /\ VerifyToken(header, now).next
           /\ Handled(Request("verify/unavailable", r), r.users)

DoRefreshUnavailable ==
    \E presented \in Bodies :
        LET r == RefreshUnavailable(users, now, presented)
        IN /\ RefreshTokenMiddleware(presented, now).next
           /\ Handled(Request("refresh/unavailable", r), r.users)

NextUnavailable ==
    \/ DoRegister
    \/ DoLogin
    \/ DoRegisterUnavailable
    \/ DoLoginUnavailable
    \/ DoProfileUnavailable
    \/ DoLogoutUnavailable
    \/ DoVerifyUnavailable
    \/ DoRefreshUnavailable

SpecUnavailable == Init /\ [][NextUnavailable]_vars

\* ------------------------------------------------------------------- C26
\* C26: a request of an authentication operation that reaches the store
\* while the store is out of service is answered 503, and never 401 nor any
\* other status.
C26_StoreFailureIs503 ==
    last.op \in UnavailableOps => last.resp.status = 503

\* ================================== /logout and /refresh, await by await
\* The handlers of /logout and /refresh give way to other requests at each
\* await: /refresh at User.findById (line 292); /logout at User.findById
\* (line 221) and at user.save (line 233).  `pending` is the log of the
\* requests: a request is at stage "findById" once its middleware has called
\* next(), at stage "save" when /logout has assigned null to its copy of the
\* document, and "done" when it is answered.  `stored` records what the store
\* held as the account's refresh token when the request's query was answered.
RaceRequest(op, account, token) ==
    [op |-> op, account |-> account, stage |-> "findById", userId |-> NoId,
     presented |-> token, stored |-> Undefined, resp |-> Response(0, "")]

Answered(entry, resp) == [entry EXCEPT !.stage = "done", !.resp = resp]

Started(op) == Cardinality({k \in DOMAIN pending : pending[k].op = op})

InitRace ==
    LET salt == CHOOSE x \in Salts : TRUE
        r1 == Register(<<>>, 0, salt, "alice", "a@x.com", "Secret1!", "Secret1!")
        r2 == Register(r1.users, 0, salt, "bob", "b@x.com", "Secret1!", "Secret1!")
        r3 == Login(r2.users, 0, "a@x.com", "Secret1!")
    IN /\ users = r3.users
       /\ now = 0
       /\ ticks = 0
       /\ grants = << <<Grant(r1.resp, DefaultRole), Grant(r3.resp, DefaultRole)>>,
                      <<NoGrant, Grant(r2.resp, DefaultRole)>> >>
       /\ last = Request("none", Result(Response(0, ""), <<>>, NoId))
       /\ pending = <<>>
       /\ contents = <<>>

\* A client of the account sends its refresh token to /refresh: the
\* refreshToken middleware runs and the handler sends its query.
StartRefresh ==
    /\ Started("refresh") < MaxRefreshes
    /\ \E account \in DOMAIN grants :
           LET presented == grants[account][2].refreshToken
               m == RefreshTokenMiddleware(presented, now)
               entry == RaceRequest("refresh", account, presented)
           IN pending' = Append(pending,
                  IF m.next THEN [entry EXCEPT !.userId = m.userId]
                  ELSE Answered(entry, m.resp))
    /\ UNCHANGED <<users, now, ticks, grants, last, contents>>

\* A client of the account sends its access token to /logout: verifyToken
\* runs and the handler sends its query.
StartLogout ==
    /\ Started("logout") < MaxLogouts
    /\ \E account \in DOMAIN grants :
           LET presented == grants[account][2].accessToken
               v == VerifyToken(Bearer(presented), now)
               entry == RaceRequest("logout", account, presented)
           IN pending' = Append(pending,
                  IF v.next THEN [entry EXCEPT !.userId = v.userId]
                  ELSE Answered(entry, v.resp))
    /\ UNCHANGED <<users, now, ticks, grants, last, contents>>

\* The query of a /refresh request is answered and the handler runs to its
\* response (lines 292-314).
ResumeRefresh ==
    \E k \in DOMAIN pending :
        LET entry == pending[k]
            user == FindById(users, entry.userId)
            seen == [entry EXCEPT !.stored = users[entry.account].refreshToken]
        IN /\ entry.op = "refresh"
           /\ entry.stage = "findById"
           /\ pending' = [pending EXCEPT ![k] =
                  IF RefreshRejects(user, entry.presented)
                  THEN Answered(seen, Response(401, "Invalid refresh token"))
                  ELSE Answered(seen,
                           [Response(200, "Access token refreshed successfully") EXCEPT
                                !.accessToken = JwtSign(user._id, user.email, JWT_SECRET,
                                                        AccessTTL, now)])]
           /\ UNCHANGED <<users, now, ticks, grants, last, contents>>

\* A /logout request goes on after an await: after the query (lines 221-232)
\* to the 404 or to the save, after the save (lines 233-240) to the 200.  The
\* save writes the one path the handler modified.
ResumeLogout ==
    \E k \in DOMAIN pending :
        LET entry == pending[k]
            user == FindById(users, entry.userId)
            seen == [entry EXCEPT !.stored = users[entry.account].refreshToken]
        IN /\ entry.op = "logout"
           /\ \/ /\ entry.stage = "findById"
                 /\ pending' = [pending EXCEPT ![k] =
                        IF user = NoUser
                        THEN Answered(seen, Response(404, "User not found"))
                        ELSE [seen EXCEPT !.stage = "save"]]
                 /\ users' = users
              \/ /\ entry.stage = "save"
                 /\ users' = [users EXCEPT ![entry.userId].refreshToken = Null]
                 /\ pending' = [pending EXCEPT ![k] =
                        Answered(entry, Response(200, "User logged out successfully"))]
           /\ UNCHANGED <<now, ticks, grants, last, contents>>

NextRace ==
    \/ StartRefresh
    \/ StartLogout
    \/ ResumeRefresh
    \/ ResumeLogout

SpecRace == InitRace /\ [][NextRace]_vars

\* ------------------------------------------------------------------- C27
\* The requests of the log that are for the account.
RaceOf(account, op) == {k \in DOMAIN pending : pending[k].op = op
                                               /\ pending[k].account = account}

\* C27: when two /refresh requests and one /logout request for the same
\* account, sent with the account's own tokens, have all been answered, in
\* whatever order their steps were taken, the account's stored refresh token
\* is null; and a /refresh request is answered 200 exactly when the store
\* still held the account's refresh token at the moment its query was
\* answered, that is, before the write of the /logout: a /refresh request
\* sent after the /logout was answered is refused.
C27_LogoutAndRefreshRace ==
    \A account \in DOMAIN users :
        /\ (/\ Cardinality(RaceOf(account, "refresh")) = 2
            /\ Cardinality(RaceOf(account, "logout")) = 1
            /\ \A k \in DOMAIN pending :
                   pending[k].account = account => pending[k].stage = "done")
               => users[account].refreshToken = Null
        /\ \A k \in RaceOf(account, "refresh") :
               pending[k].stage = "done"
                   => (pending[k].resp.status = 200 <=> pending[k].stored # Null)

\* ------------------------------------------------------------------- C28
\* C28: no response of an authentication route carries the password hash of
\* an account; the responses of /profile and /verify carry no refresh token
\* either; and a refresh token is carried only by the response of a
\* successful /register or /login, as the refresh token of the account the
\* response names, never in the place of the access token.
C28_ResponsesKeepSecrets ==
    /\ \A i \in DOMAIN users : last.resp.password # users[i].password
    /\ last.op \in {"profile", "verify"}
           => /\ ~IsToken(last.resp.refreshToken)
              /\ \A i \in DOMAIN users :
                     last.resp.accessToken # users[i].refreshToken
    /\ ~(IsToken(last.resp.accessToken)
             /\ last.resp.accessToken.sig = JWT_REFRESH_SECRET)
    /\ IsToken(last.resp.refreshToken)
           => /\ last.op \in {"register", "login"}
              /\ last.resp.status \in {200, 201}
              /\ last.resp.refreshToken.userId = last.resp.userId
              /\ last.resp.refreshToken = users[last.resp.userId].refreshToken

\* A login has just succeeded for an account that has a password hash and a
\* stored refresh token: the response carries the token and not the hash.
C28_Witness ==
    /\ last.op = "login"
    /\ last.resp.status = 200
    /\ last.resp.userId \in DOMAIN users
    /\ Len(users[last.resp.userId].password) = 3
    /\ last.resp.refreshToken = users[last.resp.userId].refreshToken
    /\ IsToken(last.resp.refreshToken)

\* ====================================== a token presented to the wrong route
\* The clients register and log in, and present the tokens they were given,
\* access tokens and refresh tokens alike, to /verify (in the Authorization
\* header) and to /refresh (in the body).  `last` keeps the token presented.
Presented(op, token, r) == [op |-> op, resp |-> r.resp, presented |-> token]

InitTokens ==
    /\ users = <<>>
    /\ now = 0
    /\ ticks = 0
    /\ grants = <<>>
    /\ last = Presented("none", Undefined, Result(Response(0, ""), <<>>, NoId))
    /\ pending = <<>>
    /\ contents = <<>>

TokensHandled(req, us) ==
    /\ users' = us
    /\ last' = req
    /\ grants' = Granted(req, us)
    /\ UNCHANGED <<now, ticks, pending, contents>>

RegisterForTokens ==
    \E body \in RegisterBodies :
        LET r == Register(users, now, body.salt, body.username, body.email,
                          body.password, body.confirmPassword)
        IN /\ r.resp.status \in {201, 400, 409}
           /\ TokensHandled(Presented("register", Undefined, r), r.users)

LoginForTokens ==
    \E body \in LoginBodies :
        LET r == Login(users, now, body.email, body.password)
        IN /\ r.resp.status \in {200, 400, 401}
           /\ TokensHandled(Presented("login", Undefined, r), r.users)

PresentToVerify ==
    \E token \in KnownAccess \cup KnownRefresh :
        LET r == Verify(users, now, Bearer(token))
        IN TokensHandled(Presented("verify", token, r), r.users)

PresentToRefresh ==
    \E token \in KnownAccess \cup KnownRefresh :
        LET r == Refresh(users, now, token)
        IN TokensHandled(Presented("refresh", token, r), r.users)

NextTokens ==
    \/ RegisterForTokens
    \/ LoginForTokens
    \/ PresentToVerify
    \/ PresentToRefresh

SpecTokens == InitTokens /\ [][NextTokens]_vars

\* ------------------------------------------------------------------- C29
\* C29: access tokens and refresh tokens are signed with different keys, so
\* neither is taken for the other: verifyToken, and /verify with it, refuses
\* every refresh token that /register or /login issued, and /refresh refuses
\* every access token.
C29_TokenKindsNotInterchangeable ==
    /\ \A token \in KnownRefresh :
           /\ ~VerifyToken(Bearer(token), now).next
           /\ Verify(users, now, Bearer(token)).resp.status = 401
    /\ \A token \in KnownAccess :
           Refresh(users, now, token).resp.status = 401

\* A refresh token that /register or /login issued, not expired, has just
\* been presented to /verify and was refused as an invalid token.
C29_Witness ==
    /\ last.op = "verify"
    /\ last.presented \in KnownRefresh
    /\ now < last.presented.exp
    /\ last.resp.status = 401
    /\ last.resp.message = "Invalid token"

\* ------------------------------------------------------------------- C31
\* The password is not the one the hash was made from.
WrongPassword(password, hash) == hash # BcryptHash(password, hash[2])

\* C31: a login that fails, because a field is missing, because no account
\* has the email, or because the password is wrong, leaves the collection
\* as it was; a login changes the stored refresh token and lastLogin of the
\* account only when it succeeds, and then nothing else.
C31_FailedLoginChangesNothing ==
    \A body \in LoginBodies :
        LET r == Login(users, now, body.email, body.password)
            user == FindOneByEmail(users, body.email)
        IN IF \/ body.email = ""
              \/ body.password = ""
              \/ user = NoUser
              \/ WrongPassword(body.password, user.password)
           THEN /\ r.resp.status \in {400, 401}
                /\ r.users = users
           ELSE /\ r.resp.status = 200
                /\ r.users = [users EXCEPT
                       ![user._id].refreshToken = r.resp.refreshToken,
                       ![user._id].lastLogin = now]

\* A login has just failed while an account has the refresh token and the
\* lastLogin that an earlier, successful login stored.
C31_Witness ==
    /\ last.op = "login"
    /\ last.resp.status = 401
    /\ \E i \in DOMAIN users :
           /\ IsToken(users[i].refreshToken)
           /\ users[i].lastLogin >= 0

\* ============================ /register when the second save is rejected
\* Lines 78-79: newUser.refreshToken = refreshTokenValue; await newUser.save().
\* The store rejects this save: the await throws and the catch (lines 92-98)
\* answers 500.  The document of the first save (line 62) stays as it is, and
\* the request stays in `pending`, at stage "failed", as a record of its body.
RegisterSecondSaveFails ==
    \E k \in DOMAIN pending :
        /\ pending[k].stage = "inserted"
        /\ last' = [op |-> "register", resp |-> RegistrationError]
        /\ pending' = [pending EXCEPT ![k].stage = "failed"]
        /\ UNCHANGED <<users, now, ticks, grants, contents>>

NextRegisterFails ==
    \/ RegisterRejected
    \/ RegisterChecked
    \/ RegisterInsert
    \/ RegisterFinish
    \/ RegisterSecondSaveFails

SpecRegisterFails == Init /\ [][NextRegisterFails]_vars

\* ------------------------------------------------------------------- C32
\* C32: registration is all or nothing: when a /register request is answered
\* with a failure after the store rejected the save of its refresh token, no
\* document has the email or the username of the request, and the same
\* request, sent again, is answered 201.
C32_RegisterAllOrNothing ==
    \A k \in DOMAIN pending :
        pending[k].stage = "failed" =>
            LET body == pending[k].body IN
            /\ FindOneByEmailOrUsername(users, body.email, body.username) = NoUser
            /\ Register(users, now, body.salt, body.username, body.email,
                        body.password, body.confirmPassword).resp.status = 201

\* ============================== /login and /register, await by await
\* The handler of /login gives way at User.findOne (line 120) and at
\* user.save (line 154); the tokens are signed, and lastLogin is taken from
\* the clock, between the two.  The handler of /register, once its first save
\* has inserted the document (line 62), signs its tokens and gives way at the
\* second save (line 79).  `pending` is the log of the requests: stage
\* "findOne" (a login whose query is out), "sign" (a register whose document
\* is inserted), "save" (tokens signed, the save is out), "done" (answered).
\* `wrote` numbers the saves in the order the store applied them.
SessionRequest(op, account, stage) ==
    [op |-> op, account |-> account, stage |-> stage,
     accessToken |-> Undefined, refreshToken |-> Undefined, at |-> -1,
     wrote |-> 0, resp |-> Response(0, "")]

Writes == Cardinality({k \in DOMAIN pending : pending[k].wrote > 0})

\* alice's /register has inserted her document and not yet stored her
\* refresh token; bob is registered.
InitSessions ==
    LET salt == CHOOSE x \in Salts : TRUE
        alice == [NoUser EXCEPT !._id = 1, !.username = "alice", !.email = "a@x.com",
                                !.password = BcryptHash("Secret1!", salt),
                                !.role = DefaultRole]
        r2 == Register(<<alice>>, 0, salt, "bob", "b@x.com", "Secret1!", "Secret1!")
    IN /\ users = r2.users
       /\ now = 0
       /\ ticks = 0
       /\ grants = <<>>
       /\ last = Request("none", Result(Response(0, ""), <<>>, NoId))
       /\ pending = <<SessionRequest("register", 1, "sign")>>
       /\ contents = <<>>

\* Lines 65-78 of /register: the tokens are signed and the second save is sent.
RegisterSigned ==
    \E k \in DOMAIN pending :
        LET entry == pending[k]
            user == users[entry.account]
        IN /\ entry.op = "register"
           /\ entry.stage = "sign"
           /\ pending' = [pending EXCEPT ![k] = [entry EXCEPT
                  !.stage = "save",
                  !.accessToken = JwtSign(user._id, user.email, JWT_SECRET, AccessTTL, now),
                  !.refreshToken = JwtSign(user._id, "", JWT_REFRESH_SECRET, RefreshTTL, now),
                  !.at = now]]
           /\ UNCHANGED <<users, now, ticks, grants, last, contents>>

\* Lines 79-91 of /register: the save stores the refresh token; 201.
RegisterSaved ==
    \E k \in DOMAIN pending :
        LET entry == pending[k]
            user == users[entry.account]
        IN /\ entry.op = "register"
           /\ entry.stage = "save"
           /\ users' = [users EXCEPT ![entry.account].refreshToken = entry.refreshToken]
           /\ pending' = [pending EXCEPT ![k] = [entry EXCEPT
                  !.stage = "done",
                  !.wrote = Writes + 1,
                  !.resp = [Response(201, "User registered successfully") EXCEPT
                                !.userId = user._id, !.username = user.username,
                                !.email = user.email,
                                !.accessToken = entry.accessToken,
                                !.refreshToken = entry.refreshToken]]]
           /\ UNCHANGED <<now, ticks, grants, last, contents>>

\* Lines 106-120 of /login: a client of the account posts its email and its
\* password, and the query is sent.
LoginRequested ==
    /\ Started("login") < MaxLogins
    /\ \E account \in DOMAIN users :
           pending' = Append(pending, SessionRequest("login", account, "findOne"))
    /\ UNCHANGED <<users, now, ticks, grants, last, contents>>

\* Lines 120-153 of /login: the document is found, the password matches, the
\* tokens are signed, lastLogin is taken from the clock and the save is sent.
LoginFound ==
    \E k \in DOMAIN pending :
        LET entry == pending[k]
            user == FindOneByEmail(users, users[entry.account].email)
        IN /\ entry.op = "login"
           /\ entry.stage = "findOne"
           /\ pending' = [pending EXCEPT ![k] = [entry EXCEPT
                  !.stage = "save",
                  !.accessToken = JwtSign(user._id, user.email, JWT_SECRET, AccessTTL, now),
                  !.refreshToken = JwtSign(user._id, "", JWT_REFRESH_SECRET, RefreshTTL, now),
                  !.at = now]]
           /\ UNCHANGED <<users, now, ticks, grants, last, contents>>

\* Lines 154-174 of /login: the save stores the paths the handler assigned,
\* refreshToken and lastLogin; 200.
LoginSaved ==
    \E k \in DOMAIN pending :
        LET entry == pending[k]
            user == users[entry.account]
        IN /\ entry.op = "login"
           /\ entry.stage = "save"
           /\ users' = [users EXCEPT ![entry.account].refreshToken = entry.refreshToken,
                                     ![entry.account].lastLogin = entry.at]
           /\ pending' = [pending EXCEPT ![k] = [entry EXCEPT
                  !.stage = "done",
                  !.wrote = Writes + 1,
                  !.resp = LoginData(user, entry.accessToken, entry.refreshToken)]]
           /\ UNCHANGED <<now, ticks, grants, last, contents>>

NextSessions ==
    \/ RegisterSigned
    \/ RegisterSaved
    \/ LoginRequested
    \/ LoginFound
    \/ LoginSaved
    \/ Tick

SpecSessions == InitSessions /\ [][NextSessions]_vars

\* ------------------------------------------------------------------- C33
\* The requests of the account in the log.
SessionsOf(account) == {k \in DOMAIN pending : pending[k].account = account}

\* C33: when two requests that store a refresh token for the same account
\* (two logins, or a login and the register that inserted the document) have
\* run concurrently and both were answered with success, the stored refresh
\* token is the one returned by the request whose save the store applied
\* last, it is not the one the other request returned, and /refresh refuses
\* the other one.
C33_LastWriteWins ==
    \A account \in DOMAIN users :
        \A k1, k2 \in SessionsOf(account) :
            (/\ Cardinality(SessionsOf(account)) = 2
             /\ pending[k1].stage = "done"
             /\ pending[k2].stage = "done"
             /\ pending[k1].wrote < pending[k2].wrote)
                => /\ users[account].refreshToken = pending[k2].resp.refreshToken
                   /\ users[account].refreshToken # pending[k1].resp.refreshToken
                   /\ Refresh(users, now, pending[k1].resp.refreshToken).resp.status = 401

\* ------------------------------------------------------------------- C34
\* The changes of status the routes allow.
Transitions == {<<"draft", "published">>, <<"draft", "archived">>,
                <<"published", "archived">>}

\* C34: the status of an item changes only from draft to published, by a
\* publish request, and from draft or published to archived, by an archive
\* request; an item enters the collection by a create request, as a draft or
\* as published; a published item is never a draft again; and an archive
\* request for an archived item is answered 400 when its author or an admin
\* sends it, and leaves the collection as it was.
C34_StatusTransitions ==
    /\ [](\A caller \in ContentCallers, id \in ContentIds(contents), t \in Times :
              (/\ contents[id].status = "archived"
               /\ caller.present
               /\ caller.id = contents[id].author \/ caller.isAdmin)
                  => LET a == Archive(contents, t, caller, id)
                     IN /\ a.resp.status = 400
                        /\ a.contents = contents)
    /\ [][/\ \A id \in ContentIds(contents) :
                 /\ id \in ContentIds(contents')
                 /\ contents'[id].status # contents[id].status
                        => /\ <<contents[id].status, contents'[id].status>> \in Transitions
                           /\ last'.op = IF contents'[id].status = "published"
                                         THEN "publish" ELSE "archive"
          /\ \A id \in ContentIds(contents') \ ContentIds(contents) :
                 /\ contents'[id].status \in {"draft", "published"}
                 /\ last'.op = "create"]_vars

\* An item that was created as a draft and then published has just been
\* archived.
C34_Witness ==
    /\ last.op = "archive"
    /\ last.resp.status = 200
    /\ \E id \in ContentIds(contents) :
           /\ last.resp.item = id
           /\ contents[id].status = "archived"
           /\ contents[id].publishedAt # NoDate

\* ------------------------------------------------------------------- C35
\* The bodies of the update requests the property is stated for: a title
\* alone, a status alone, an author alone, and the three together.
AnyUpdateBodies ==
    {[title |-> "second", status |-> "", author |-> NoId],
     [title |-> "", status |-> "draft", author |-> NoId],
     [title |-> "", status |-> "", author |-> Len(users)],
     [title |-> "second", status |-> "draft", author |-> Len(users)]}

ViewRequest(caller, id) ==
    [caller |-> caller, id |-> id, stage |-> "findById", views |-> 0,
     resp |-> ContentResponse(0, "")]

\* alice has created a published item and a draft.
InitViews ==
    LET salt == CHOOSE x \in Salts : TRUE
        r1 == Register(<<>>, 0, salt, "alice", "a@x.com", "Secret1!", "Secret1!")
        r2 == Register(r1.users, 0, salt, "bob", "b@x.com", "Secret1!", "Secret1!")
        c1 == Create(<<>>, 0, Caller(1, FALSE), [title |-> "first", status |-> "published"])
        c2 == Create(c1.contents, 0, Caller(1, FALSE), [title |-> "first", status |-> "draft"])
    IN /\ users = r2.users
       /\ now = 0
       /\ ticks = 0
       /\ grants = << <<NoGrant, Grant(r1.resp, DefaultRole)>>,
                      <<NoGrant, Grant(r2.resp, DefaultRole)>> >>
       /\ last = ContentCall("none", NoCaller, ContentResult(ContentResponse(0, ""), <<>>))
       /\ pending = <<>>
       /\ contents = c2.contents

\* Line 405: a request arrives and its query is sent.
ViewRequested ==
    /\ Len(pending) < MaxGets
    /\ \E caller \in ContentCallers, id \in AskedIds :
           pending' = Append(pending, ViewRequest(caller, id))
    /\ UNCHANGED <<users, now, ticks, grants, last, contents>>

\* Lines 405-422: the query is answered; 404, 403, or, for an item that is
\* not published, 200; for a published item the copy is counted and saved.
ViewFound ==
    \E k \in DOMAIN pending :
        LET entry == pending[k]
            content == FindContentById(contents, entry.id)
            answered(resp) == [entry EXCEPT !.stage = "done", !.resp = resp]
        IN /\ entry.stage = "findById"
           /\ pending' = [pending EXCEPT ![k] =
                  IF content = NoContent
                  THEN answered(ContentResponse(404, "Content not found"))
                  ELSE IF ViewDenied(content, entry.caller)
                  THEN answered(ContentResponse(403,
                                    "You are not authorized to view this content"))
                  ELSE IF content.status = "published"
                  THEN [entry EXCEPT !.stage = "save", !.views = CountView(content).views]
                  ELSE answered([ContentResponse(200, "") EXCEPT !.item = entry.id])]
           /\ UNCHANGED <<users, now, ticks, grants, last, contents>>

\* Lines 422-428: the save stores the counter of the copy; 200.
ViewSaved ==
    \E k \in DOMAIN pending :
        LET entry == pending[k]
        IN /\ entry.stage = "save"
           /\ contents' = [contents EXCEPT ![entry.id].views = entry.views]
           /\ pending' = [pending EXCEPT ![k] =
                  [entry EXCEPT !.stage = "done",
                                !.resp = [ContentResponse(200, "") EXCEPT !.item = entry.id]]]
           /\ UNCHANGED <<users, now, ticks, grants, last>>

NextViews ==
    \/ ViewRequested
    \/ ViewFound
    \/ ViewSaved

SpecViews == InitViews /\ [][NextViews]_vars

\* ------------------------------------------------------------------- C36
\* The requests for the item that returned it.
Returned(id) == {k \in DOMAIN pending : /\ pending[k].id = id
                                        /\ pending[k].stage = "done"
                                        /\ pending[k].resp.status = 200}

\* C36: when every get-by-id request for an item has been answered, however
\* the steps of the requests were interleaved, the views of a published item
\* have grown by the number of requests that returned it, and the views of
\* an item that is not published, like those of an item for which every
\* request was denied, have not changed (they were 0 before the requests).
C36_EveryViewCounted ==
    \A id \in ContentIds(contents) :
        (\A k \in DOMAIN pending : pending[k].id = id => pending[k].stage = "done")
            => contents[id].views = IF contents[id].status = "published"
                                    THEN Cardinality(Returned(id))
                                    ELSE 0

====
